---- MODULE Spec2Model ----
(***************************************************************************)
(* aem_to_normalized.py: the AEM education export is normalised into four  *)
(* tables (content, content_to_text, content_to_content,                   *)
(* content_to_attribute).  transform() is a single-threaded pipeline; each *)
(* of its loops is one action here, and the program counter pc names the   *)
(* loop that runs next.                                                    *)
(*                                                                         *)
(* Representation of the JSON input:                                       *)
(*   - a path string "/a/b/c" is the sequence <<"a","b","c">> of its       *)
(*     segments ('' is <<>>);                                              *)
(*   - a URL string is [host, dir, parts]: scheme+host ("" when relative), *)
(*     the directory (ending in "/") and the '.'-separated parts of the    *)
(*     file name; RenderUrl gives the string back;                         *)
(*   - a JSON object is a function whose DOMAIN is the set of its keys;    *)
(*   - Python's None is None (0) where an integer is expected and "" where *)
(*     a string is expected.                                               *)
(***************************************************************************)
EXTENDS Integers, Sequences, FiniteSets, TLC

\* ---------------------------------------------------------------- bounds
MaxItems == 2
MaxDedupLen == 4

\* ------------------------------------------------------- IDs and maps
None == 0

CONTENT_TYPE_ID ==
  ("Curriculum" :> 1) @@ ("Unit" :> 2) @@ ("Lesson" :> 3) @@ ("Page" :> 4) @@
  ("Answer" :> 5) @@ ("Asset" :> 6) @@ ("Term" :> 7) @@ ("Tag" :> 8)

PATH_TOKEN_TO_TYPE_ID ==
  ("curriculum" :> 1) @@ ("unit" :> 2) @@ ("lesson" :> 3) @@
  ("question-answer" :> 5) @@ ("term" :> 7) @@ ("tag" :> 8)

LABEL_MAP ==
  ("iconPage" :> 303) @@ ("tipPage" :> 304) @@ ("imagePage" :> 305) @@
  ("questionPage" :> 310) @@ ("lessonTableOfContentsPage" :> 311) @@
  ("lessonIntroPage" :> 313) @@ ("curriculumIntroPage" :> 314)

IMAGE_ROLE_LABEL ==
  ("icon" :> 401) @@ ("iconImage" :> 401) @@ ("posterImage" :> 402) @@
  ("thumbnailImage" :> 403) @@ ("heroImage" :> 404) @@ ("titleImage" :> 405) @@
  ("title_image" :> 405) @@ ("titleimage" :> 405)

\* ROLE_PRIORITY.get(r, 0); the None key of the dictionary is the 0 entry.
ROLE_PRIORITY(r) ==
  CASE r = 405 -> 5 [] r = 404 -> 4 [] r = 403 -> 3 [] r = 401 -> 2
    [] r = 402 -> 1 [] OTHER -> 0

ATTR_ID_MAP ==
  ("DM" :> 1) @@ ("HTN" :> 2) @@ ("DPP" :> 3) @@ ("WL" :> 4) @@ ("None" :> 5) @@
  ("Daily" :> 6) @@ ("Weekly" :> 7) @@ ("Monthly" :> 8) @@ ("AWM" :> 9) @@
  ("CWC" :> 10)

TAG_TO_ATTR ==
  ("dm" :> 1) @@ ("htn" :> 2) @@ ("dpp" :> 3) @@ ("wl" :> 4) @@ ("awm" :> 9) @@
  ("cwc" :> 10)

\* TEXT_FIELDS in dictionary (iteration) order, and its values.
TEXT_FIELD_KEYS ==
  << "title", "subtitle", "description", "beginCaption", "finishCaption",
     "completedMessage", "body", "tipText", "questionId", "question",
     "otherCaption", "otherPlaceholder", "acknowledgement", "name",
     "definition", "tipType", "includeOther", "cadenceSkip",
     "lastRequiredPageIndex", "answerText" >>

TEXT_FIELDS ==
  ("title" :> 1) @@ ("subtitle" :> 2) @@ ("description" :> 3) @@
  ("beginCaption" :> 4) @@ ("finishCaption" :> 5) @@ ("completedMessage" :> 6) @@
  ("body" :> 7) @@ ("tipText" :> 8) @@ ("questionId" :> 9) @@ ("question" :> 10) @@
  ("otherCaption" :> 13) @@ ("otherPlaceholder" :> 14) @@
  ("acknowledgement" :> 15) @@ ("name" :> 16) @@ ("definition" :> 17) @@
  ("tipType" :> 22) @@ ("includeOther" :> 23) @@ ("cadenceSkip" :> 24) @@
  ("lastRequiredPageIndex" :> 25) @@ ("answerText" :> 26)

SPECIAL_KEYS == << "titleRequiredEnglish", "descriptionRequiredEnglish" >>

SPECIAL_TO_TEXT ==
  ("titleRequiredEnglish" :> 1) @@ ("descriptionRequiredEnglish" :> 7)

IMAGE_URL_KEYS ==
  << "heroImage", "thumbnailImage", "posterImage", "titleImage", "icon",
     "iconImage", "title_image", "titleimage" >>

\* The directory REL_DAM_RE matches, and the default host.
DAM_DIR == "/content/dam/teladoc-headless/image/"

DEFAULT_DAM_BASE == "https://publish-p151554-e1560130.adobeaemcloud.com"

\* Text kinds written by the asset phases and the enricher.
TT_TITLE == 1
TT_URL == 18
TT_WIDTH == 19
TT_HEIGHT == 20
TT_MIME == 21
TT_ANSWER_TEXT == 26
LBL_POTENTIAL == 501
LBL_CORRECT == 502
GENERIC_IMAGE_ROLE == 404

\* ------------------------------------------------------------ strings
\* str(n) of a natural number.
Digit(d) ==
  CASE d = 0 -> "0" [] d = 1 -> "1" [] d = 2 -> "2" [] d = 3 -> "3" [] d = 4 -> "4"
    [] d = 5 -> "5" [] d = 6 -> "6" [] d = 7 -> "7" [] d = 8 -> "8" [] OTHER -> "9"

RECURSIVE IntStr(_)
IntStr(n) == IF n < 10 THEN Digit(n) ELSE IntStr(n \div 10) \o Digit(n % 10)

\* A text_value: a Python str (isint FALSE, s) or a Python int (isint TRUE, n).
StrVal(s) == [isint |-> FALSE, s |-> s, n |-> 0]
IntVal(n) == [isint |-> TRUE, s |-> "", n |-> n]

\* str(v)
PyStr(v) == IF v.isint THEN StrVal(IntStr(v.n)) ELSE v

\* str.lower() / str.upper() / str.capitalize() on the strings of the inputs.
Lower(s) ==
  CASE s = "DM" -> "dm" [] s = "Dm" -> "dm" [] s = "PNG" -> "png"
    [] s = "Daily" -> "daily" [] s = "DAILY" -> "daily" [] OTHER -> s

Upper(s) ==
  CASE s = "dm" -> "DM" [] s = "Dm" -> "DM" [] s = "png" -> "PNG"
    [] s = "daily" -> "DAILY" [] s = "Daily" -> "DAILY" [] OTHER -> s

Capitalize(s) ==
  CASE s = "dm" -> "Dm" [] s = "DM" -> "Dm" [] s = "daily" -> "Daily"
    [] s = "DAILY" -> "Daily" [] s = "PNG" -> "Png" [] s = "png" -> "Png"
    [] OTHER -> s

\* ------------------------------------------------------------ paths
\* (p or '').rstrip('/').split('/')[-1]
basename(p) == IF p = <<>> THEN "" ELSE p[Len(p)]

\* Mutant: a page-kind segment counts only while no entity-kind segment has
\* been seen.
RECURSIVE InferScanEntityFirst(_, _)
InferScanEntityFirst(parts, ctype) ==
  IF parts = <<>> THEN <<ctype, None>>
  ELSE IF Head(parts) \in DOMAIN LABEL_MAP /\ ctype = None
       THEN <<CONTENT_TYPE_ID["Page"], LABEL_MAP[Head(parts)]>>
       ELSE InferScanEntityFirst(Tail(parts),
                      IF Head(parts) \in DOMAIN PATH_TOKEN_TO_TYPE_ID
                      THEN PATH_TOKEN_TO_TYPE_ID[Head(parts)] ELSE ctype)

RECURSIVE InferScan(_, _)
InferScan(parts, ctype) ==
  IF parts = <<>> THEN <<ctype, None>>
  ELSE IF Head(parts) \in DOMAIN LABEL_MAP
       THEN <<CONTENT_TYPE_ID["Page"], LABEL_MAP[Head(parts)]>>
       ELSE InferScan(Tail(parts),
                      IF Head(parts) \in DOMAIN PATH_TOKEN_TO_TYPE_ID
                      THEN PATH_TOKEN_TO_TYPE_ID[Head(parts)] ELSE ctype)

infer_type_label(path) ==
  IF path = <<>> THEN <<None, None>> ELSE InferScan(path, None)

\* The first page-kind token of a reference path (the Lesson -> Page loop).
RECURSIVE FirstLabel(_)
FirstLabel(parts) ==
  IF parts = <<>> THEN None
  ELSE IF Head(parts) \in DOMAIN LABEL_MAP THEN LABEL_MAP[Head(parts)]
       ELSE FirstLabel(Tail(parts))

\* f"/curriculum/{cid}/" in up
HasCurriculumMarker(up, cid) ==
  \E i \in 1..Len(up) : up[i] = "curriculum" /\ i + 1 < Len(up) /\ up[i + 1] = cid

\* ------------------------------------------------------------- URLs
EmptyUrl == [host |-> "", dir |-> "", parts |-> <<>>]

RECURSIVE JoinDots(_)
JoinDots(parts) ==
  IF parts = <<>> THEN ""
  ELSE IF Len(parts) = 1 THEN parts[1]
       ELSE parts[1] \o "." \o JoinDots(Tail(parts))

RenderUrl(u) == u.host \o u.dir \o JoinDots(u.parts)

normalize_url(url, base) ==
  IF url = EmptyUrl THEN url
  ELSE IF url.host # "" THEN url
  ELSE IF url.dir = DAM_DIR
       THEN [url EXCEPT !.host = IF base # "" THEN base ELSE DEFAULT_DAM_BASE]
       ELSE url

\* os.path.basename(url).split('.')[0], or None ("") for an empty basename.
derive_asset_id(url) == IF url.parts = <<>> THEN "" ELSE url.parts[1]

\* the text after the last '.', lower-cased; '' when the basename has no '.'.
derive_asset_ext(url) ==
  IF Len(url.parts) >= 2 THEN Lower(url.parts[Len(url.parts)]) ELSE ""

\* '/content/dam/teladoc-headless/image/' in url
InDam(url) == url.dir = DAM_DIR

\* An image value: a string (t = "str", u), an object (t = "dict", d: key ->
\* URL string, "" entries being EmptyUrl) or anything else (t = "other").
EXTRACT_KEYS == << "src", "url", "fileReference", "fileRef", "path", "href" >>

RECURSIVE FirstUrlOf(_, _)
FirstUrlOf(d, keys) ==
  IF keys = <<>> THEN EmptyUrl
  ELSE IF Head(keys) \in DOMAIN d /\ d[Head(keys)] # EmptyUrl THEN d[Head(keys)]
       ELSE FirstUrlOf(d, Tail(keys))

\* None is EmptyUrl: every caller only tests the result for truth.
extract_image_url(img) ==
  IF img.t = "str" THEN img.u
  ELSE IF img.t = "dict" THEN FirstUrlOf(img.d, EXTRACT_KEYS)
  ELSE EmptyUrl

\* ----------------------------------------------------------- dictionaries
\* d[k] = v on a Python dict held as a function.
Put(d, k, v) == [x \in (DOMAIN d) \cup {k} |-> IF x = k THEN v ELSE d[x]]

\* d.get(k, default)
Get(d, k, default) == IF k \in DOMAIN d THEN d[k] ELSE default

\* An insertion-ordered dict name -> item: keys in first-insertion order, val the
\* position in items of the record last stored under the key.
EmptyBucket == [keys |-> <<>>, val |-> <<>>]

BucketPut(b, k, i) ==
  [keys |-> IF k \in DOMAIN b.val THEN b.keys ELSE Append(b.keys, k),
   val |-> Put(b.val, k, i)]

\* ------------------------------------------------------------- state
VARIABLES
  pc,                \* the loop of transform that runs next
  items,             \* the input record list
  base_url,          \* transform's base_url once resolved ("" before)
  content, ctt, ctc, cta,          \* the four tables
  content_index,     \* cms_id -> position in content of the row it aliases
  known_ids, include_mask, type_cache, items_index,
  curricula, units, lessons, terms, pages,
  answer_text_index,
  url_row_written, asset_ext_hint, asset_meta_cache, asset_url_map,
  enrich_queue,      \* sorted(url_assets) still to be enriched
  fetch_log,         \* the asset ids fetch_asset_metadata was called with
  result,            \* the returned content_to_text table (<<>> before)
  src,               \* main: the parsed input JSON
  out_file,          \* main: what was written to --out (NoFile before)
  error              \* main: the exception raised ("" if none)

inVars == <<items, base_url>>
tabVars == <<content, ctt, ctc, cta>>
idxVars == <<content_index, known_ids, include_mask, type_cache, items_index,
             curricula, units, lessons, terms, pages, answer_text_index>>
assetVars == <<url_row_written, asset_ext_hint, asset_meta_cache, asset_url_map,
               enrich_queue, fetch_log>>
mainVars == <<src, out_file, error>>
vars == <<pc, inVars, tabVars, idxVars, assetVars, result, mainVars>>

\* --------------------------------------------------------- table rows
\* created_date (one now_iso() value for the run), deleted_date ('') and id
\* (None) are the same in every row of a table; content rows keep them.
ContentRow(name, ctype, clabel) ==
  [cms_id |-> name, content_version |-> 1, content_type_id |-> ctype,
   content_label_id |-> clabel, created_date |-> "created", deleted_date |-> ""]

TextRow(cid, tid, idx, val) ==
  [content_cms_id |-> cid, locale_id |-> 1, text_index |-> idx,
   text_type_id |-> tid, text_value |-> val]

EdgeRow(parent, child, label, idx) ==
  [parent_cms_id |-> parent, child_cms_id |-> child,
   child_content_label_id |-> label, child_index |-> idx]

AttrRow(cid, aid) == [content_cms_id |-> cid, attribute_id |-> aid]

\* Mutant: the inclusion mask is not consulted.
SkippedNameOnly(it, mask) == it.name = ""

\* not name or not include_mask.get(name, False)
Skipped(it, mask) == it.name = "" \/ ~Get(mask, it.name, FALSE)

\* ------------------------------------------- Inclusion (lines 220-230)
RECURSIVE InclusionLoop(_, _, _)
InclusionLoop(its, i, st) ==
  IF i > Len(its) THEN st
  ELSE LET it == its[i]
           tl == infer_type_label(it.path)
       IN InclusionLoop(its, i + 1,
            [items_index |-> IF it.name # "" THEN Put(st.items_index, it.name, i)
                             ELSE st.items_index,
             type_cache |-> Put(st.type_cache, it.name, tl),
             include_mask |-> Put(st.include_mask, it.name,
                                  (tl[1] # None) \/ tl[1] = CONTENT_TYPE_ID["Page"])])

\* if url is a str starting with 'http': scheme://netloc
RECURSIVE PickFromKeys(_, _)
PickFromKeys(img, keys) ==
  IF keys = <<>> THEN ""
  ELSE IF Head(keys) \in DOMAIN img /\ img[Head(keys)].t = "str"
          /\ img[Head(keys)].u.host # ""
       THEN img[Head(keys)].u.host
       ELSE PickFromKeys(img, Tail(keys))

RECURSIVE PickFromList(_)
PickFromList(imgs) ==
  IF imgs = <<>> THEN ""
  ELSE IF Head(imgs).host # "" THEN Head(imgs).host ELSE PickFromList(Tail(imgs))

RECURSIVE pick_base_url(_)
pick_base_url(its) ==
  IF its = <<>> THEN ""
  ELSE LET k == PickFromKeys(Head(its).data.img, IMAGE_URL_KEYS)
           l == PickFromList(Head(its).data.images)
       IN IF k # "" THEN k ELSE IF l # "" THEN l ELSE pick_base_url(Tail(its))

Inclusion ==
  /\ pc = "inclusion"
  /\ LET st == InclusionLoop(items, 1,
                 [items_index |-> <<>>, type_cache |-> <<>>, include_mask |-> <<>>])
     IN /\ items_index' = st.items_index
        /\ type_cache' = st.type_cache
        /\ include_mask' = st.include_mask
  /\ base_url' = IF pick_base_url(items) # "" THEN pick_base_url(items)
                 ELSE DEFAULT_DAM_BASE
  /\ pc' = "content_rows"
  /\ UNCHANGED mainVars
  /\ UNCHANGED <<items, tabVars, content_index, known_ids, curricula, units,
                 lessons, terms, pages, answer_text_index, assetVars, result>>

\* ------------------------------------------ content rows (lines 232-251)
RECURSIVE ContentRowsLoop(_, _, _)
ContentRowsLoop(its, i, st) ==
  IF i > Len(its) THEN st
  ELSE LET it == its[i] IN
       IF Skipped(it, include_mask) THEN ContentRowsLoop(its, i + 1, st)
       ELSE LET ctype == type_cache[it.name][1]
                clabel == type_cache[it.name][2]
                s1 == [st EXCEPT
                         !.content = Append(@, ContentRow(it.name, ctype, clabel)),
                         !.content_index = Put(@, it.name, Len(st.content) + 1),
                         !.known_ids = @ \cup {it.name}]
                s2 == IF ctype = CONTENT_TYPE_ID["Curriculum"]
                        THEN [s1 EXCEPT !.curricula = BucketPut(@, it.name, i)]
                      ELSE IF ctype = CONTENT_TYPE_ID["Unit"]
                        THEN [s1 EXCEPT !.units = BucketPut(@, it.name, i)]
                      ELSE IF ctype = CONTENT_TYPE_ID["Lesson"]
                        THEN [s1 EXCEPT !.lessons = BucketPut(@, it.name, i)]
                      ELSE IF ctype = CONTENT_TYPE_ID["Term"]
                        THEN [s1 EXCEPT !.terms = BucketPut(@, it.name, i)]
                      ELSE IF ctype = CONTENT_TYPE_ID["Page"]
                        THEN [s1 EXCEPT !.pages = BucketPut(@, it.name, i)]
                      ELSE s1
            IN ContentRowsLoop(its, i + 1, s2)

ContentRows ==
  /\ pc = "content_rows"
  /\ LET st == ContentRowsLoop(items, 1,
                 [content |-> <<>>, content_index |-> <<>>, known_ids |-> {},
                  curricula |-> EmptyBucket, units |-> EmptyBucket,
                  lessons |-> EmptyBucket, terms |-> EmptyBucket,
                  pages |-> EmptyBucket])
     IN /\ content' = st.content
        /\ content_index' = st.content_index
        /\ known_ids' = st.known_ids
        /\ curricula' = st.curricula
        /\ units' = st.units
        /\ lessons' = st.lessons
        /\ terms' = st.terms
        /\ pages' = st.pages
  /\ pc' = "text_fields"
  /\ UNCHANGED mainVars
  /\ UNCHANGED <<inVars, ctt, ctc, cta, include_mask, type_cache, items_index,
                 answer_text_index, assetVars, result>>

\* ------------------------------------------- text fields (lines 253-264)
\* data[k] not in (None, ''): a source scalar is StrVal(s) ("" for '' and None)
\* or IntVal(n).
RECURSIVE TextKeyLoop(_, _, _)
TextKeyLoop(keys, name, text) ==
  IF keys = <<>> THEN <<>>
  ELSE LET k == Head(keys) IN
       (IF k \in DOMAIN text /\ text[k] # StrVal("")
        THEN <<TextRow(name, TEXT_FIELDS[k], 0, PyStr(text[k]))>>
        ELSE <<>>)
       \o TextKeyLoop(Tail(keys), name, text)

\* if k in data and data[k]: 0 is falsy too.
RECURSIVE SpecialKeyLoop(_, _, _)
SpecialKeyLoop(keys, name, text) ==
  IF keys = <<>> THEN <<>>
  ELSE LET k == Head(keys) IN
       (IF k \in DOMAIN text /\ text[k] # StrVal("") /\ text[k] # IntVal(0)
        THEN <<TextRow(name, SPECIAL_TO_TEXT[k], 0, PyStr(text[k]))>>
        ELSE <<>>)
       \o SpecialKeyLoop(Tail(keys), name, text)

\* The rows the loop appends for the records from the i-th on.
RECURSIVE TextFieldsLoop(_, _)
TextFieldsLoop(its, i) ==
  IF i > Len(its) THEN <<>>
  ELSE LET it == its[i] IN
       IF Skipped(it, include_mask) THEN TextFieldsLoop(its, i + 1)
       ELSE TextKeyLoop(TEXT_FIELD_KEYS, it.name, it.data.text)
            \o SpecialKeyLoop(SPECIAL_KEYS, it.name, it.data.text)
            \o TextFieldsLoop(its, i + 1)

TextFieldsPhase ==
  /\ pc = "text_fields"
  /\ ctt' = ctt \o TextFieldsLoop(items, 1)
  /\ pc' = "answer_text_index"
  /\ UNCHANGED mainVars
  /\ UNCHANGED <<inVars, content, ctc, cta, idxVars, assetVars, result>>

\* -------------------------------------- answer text index (lines 266-275)
RECURSIVE AnswerTextLoop(_, _, _)
AnswerTextLoop(rows, i, idx) ==
  IF i > Len(rows) THEN idx
  ELSE AnswerTextLoop(rows, i + 1,
         IF rows[i].text_type_id = TT_ANSWER_TEXT /\ rows[i].content_cms_id # ""
         THEN Put(idx, rows[i].content_cms_id, PyStr(rows[i].text_value).s)
         ELSE idx)

AnswerTextIndex ==
  /\ pc = "answer_text_index"
  /\ answer_text_index' = AnswerTextLoop(ctt, 1, <<>>)
  /\ pc' = "attributes"
  /\ UNCHANGED mainVars
  /\ UNCHANGED <<inVars, tabVars, content_index, known_ids, include_mask,
                 type_cache, items_index, curricula, units, lessons, terms,
                 pages, assetVars, result>>

\* --------------------------------------------- attributes (lines 277-299)
\* A.get(x) or A.get(y): every id of the maps is truthy; None (0) when absent.
Lookup2(map, x, y) ==
  IF x \in DOMAIN map THEN map[x] ELSE IF y \in DOMAIN map THEN map[y] ELSE None

RECURSIVE CategoriesLoop(_, _, _)
CategoriesLoop(cats, name, rows) ==
  IF cats = <<>> THEN rows
  ELSE LET aid == Lookup2(ATTR_ID_MAP, Head(cats), Upper(Head(cats))) IN
       CategoriesLoop(Tail(cats), name,
         IF aid # None THEN Append(rows, AttrRow(name, aid)) ELSE rows)

RECURSIVE TagsLoop(_, _, _)
TagsLoop(tags, name, rows) ==
  IF tags = <<>> THEN rows
  ELSE LET aid == Get(TAG_TO_ATTR, Lower(Head(tags)), None) IN
       TagsLoop(Tail(tags), name,
         IF aid # None THEN Append(rows, AttrRow(name, aid)) ELSE rows)

CadenceRows(cad, name, rows) ==
  LET aid == IF cad = "" THEN None
             ELSE Lookup2(ATTR_ID_MAP, cad, Capitalize(cad))
  IN IF aid # None THEN Append(rows, AttrRow(name, aid)) ELSE rows

RECURSIVE AttributesLoop(_, _, _)
AttributesLoop(its, i, rows) ==
  IF i > Len(its) THEN rows
  ELSE LET it == its[i] IN
       IF Skipped(it, include_mask) THEN AttributesLoop(its, i + 1, rows)
       ELSE AttributesLoop(its, i + 1,
              TagsLoop(it.data.tags, it.name,
                CadenceRows(it.data.cadence, it.name,
                  CategoriesLoop(it.data.categories, it.name, rows))))

AttributesPhase ==
  /\ pc = "attributes"
  /\ cta' = AttributesLoop(items, 1, cta)
  /\ pc' = "curriculum_unit"
  /\ UNCHANGED mainVars
  /\ UNCHANGED <<inVars, content, ctt, ctc, idxVars, assetVars, result>>

\* ------------------------------------------------------- references
\* A reference list entry: an object (t = "dict", path its 'path' or <<>>), a
\* string (t = "str", path its text) or anything else (t = "other").
\* ref.get('path','') if isinstance(ref, dict) else ''
DictPath(ref) == IF ref.t = "dict" THEN ref.path ELSE <<>>

\* the path of an object or of a string, '' otherwise
AnyPath(ref) == IF ref.t \in {"dict", "str"} THEN ref.path ELSE <<>>

\* data.get(key) when it is a list, [] otherwise
RefList(it, key) == Get(it.data.refs, key, <<>>)

\* ------------------------------------- Curriculum -> Unit (lines 307-324)
RECURSIVE ExplicitUnits(_, _, _, _)
ExplicitUnits(arr, i, cid, edges) ==
  IF i > Len(arr) THEN edges
  ELSE LET child == basename(DictPath(arr[i])) IN
       ExplicitUnits(arr, i + 1, cid,
         IF child # "" /\ child \in known_ids
         THEN Append(edges, EdgeRow(cid, child, None, i - 1)) ELSE edges)

\* Mutant: every known unit is a child (no marker test).
RECURSIVE InferredUnitsNoMarker(_, _, _, _)
InferredUnitsNoMarker(uids, cid, idx, edges) ==
  IF uids = <<>> THEN edges
  ELSE LET uid == Head(uids) IN
       IF uid \in known_ids
       THEN InferredUnitsNoMarker(Tail(uids), cid, idx + 1,
              Append(edges, EdgeRow(cid, uid, None, idx)))
       ELSE InferredUnitsNoMarker(Tail(uids), cid, idx, edges)

RECURSIVE InferredUnits(_, _, _, _)
InferredUnits(uids, cid, idx, edges) ==
  IF uids = <<>> THEN edges
  ELSE LET uid == Head(uids)
           up == items[units.val[uid]].path
       IN IF HasCurriculumMarker(up, cid) /\ uid \in known_ids
          THEN InferredUnits(Tail(uids), cid, idx + 1,
                 Append(edges, EdgeRow(cid, uid, None, idx)))
          ELSE InferredUnits(Tail(uids), cid, idx, edges)

RECURSIVE CurriculumLoop(_, _)
CurriculumLoop(cids, edges) ==
  IF cids = <<>> THEN edges
  ELSE LET cid == Head(cids)
           arr == RefList(items[curricula.val[cid]], "units")
       IN CurriculumLoop(Tail(cids),
            IF arr # <<>> THEN ExplicitUnits(arr, 1, cid, edges)
            ELSE InferredUnits(units.keys, cid, 0, edges))

CurriculumToUnit ==
  /\ pc = "curriculum_unit"
  /\ ctc' = CurriculumLoop(curricula.keys, ctc)
  /\ pc' = "unit_lesson"
  /\ UNCHANGED mainVars
  /\ UNCHANGED <<inVars, content, ctt, cta, idxVars, assetVars, result>>

\* ----------------------------------------- Unit -> Lesson (lines 326-337)
\* Mutant: the list is abandoned at the first entry that yields no edge
\* (break for continue).
RECURSIVE LessonRefsStopAtBad(_, _, _, _)
LessonRefsStopAtBad(arr, i, pname, edges) ==
  IF i > Len(arr) THEN edges
  ELSE LET child == basename(DictPath(arr[i])) IN
       IF child # "" /\ child \in known_ids
       THEN LessonRefsStopAtBad(arr, i + 1, pname,
              Append(edges, EdgeRow(pname, child, None, i - 1)))
       ELSE edges

RECURSIVE LessonRefs(_, _, _, _)
LessonRefs(arr, i, pname, edges) ==
  IF i > Len(arr) THEN edges
  ELSE LET child == basename(DictPath(arr[i])) IN
       LessonRefs(arr, i + 1, pname,
         IF child # "" /\ child \in known_ids
         THEN Append(edges, EdgeRow(pname, child, None, i - 1)) ELSE edges)

RECURSIVE UnitLessonLoop(_, _, _)
UnitLessonLoop(its, i, edges) ==
  IF i > Len(its) THEN edges
  ELSE IF Skipped(its[i], include_mask) THEN UnitLessonLoop(its, i + 1, edges)
       ELSE UnitLessonLoop(its, i + 1,
              LessonRefs(RefList(its[i], "lessons"), 1, its[i].name, edges))

UnitToLesson ==
  /\ pc = "unit_lesson"
  /\ ctc' = UnitLessonLoop(items, 1, ctc)
  /\ pc' = "lesson_page"
  /\ UNCHANGED mainVars
  /\ UNCHANGED <<inVars, content, ctt, cta, idxVars, assetVars, result>>

\* ----------------------------------------- Lesson -> Page (lines 339-359)
\* lesson_to_pages is written here and never read: it is not part of the state.
RECURSIVE PageRefs(_, _, _, _)
PageRefs(arr, i, pname, edges) ==
  IF i > Len(arr) THEN edges
  ELSE LET p == DictPath(arr[i])
           child == basename(p)
       IN PageRefs(arr, i + 1, pname,
            IF child = "" \/ child \notin known_ids THEN edges
            ELSE Append(edges, EdgeRow(pname, child, FirstLabel(p), i - 1)))

RECURSIVE LessonPageLoop(_, _, _)
LessonPageLoop(its, i, edges) ==
  IF i > Len(its) THEN edges
  ELSE IF Skipped(its[i], include_mask) THEN LessonPageLoop(its, i + 1, edges)
       ELSE LessonPageLoop(its, i + 1,
              PageRefs(RefList(its[i], "pages"), 1, its[i].name, edges))

LessonToPage ==
  /\ pc = "lesson_page"
  /\ ctc' = LessonPageLoop(items, 1, ctc)
  /\ pc' = "term_refs"
  /\ UNCHANGED mainVars
  /\ UNCHANGED <<inVars, content, ctt, cta, idxVars, assetVars, result>>

\* ------------------------- Term.contentReference -> edges (lines 362-400)
\* A contentReference value is [t, l]: an object or a string (t "dict"/"str",
\* l the one reference it is), a list (t "list", l its entries) or another
\* truthy value (t "other").  '' and [] are falsy.
Truthy(v) ==
  ~(v.t = "list" /\ v.l = <<>>) /\ ~(v.t = "str" /\ v.l[1].path = <<>>)

NoRefs == [t |-> "list", l |-> <<>>]

\* tdata.get('contentReference') or tdata.get('contentReferences')
TermRefsOf(tdata) ==
  IF "contentReference" \in DOMAIN tdata.trefs
     /\ Truthy(tdata.trefs["contentReference"])
  THEN tdata.trefs["contentReference"]
  ELSE Get(tdata.trefs, "contentReferences", NoRefs)

RECURSIVE TermRefLoop(_, _, _)
TermRefLoop(refs, term_id, st) ==
  IF refs = <<>> THEN st
  ELSE LET parent_page_id == basename(AnyPath(Head(refs))) IN
       IF parent_page_id = "" \/ parent_page_id \notin DOMAIN pages.val
       THEN TermRefLoop(Tail(refs), term_id, st)
       ELSE IF Get(type_cache, parent_page_id, <<None, None>>)[2]
               # LABEL_MAP["imagePage"]
       THEN TermRefLoop(Tail(refs), term_id, st)
       ELSE LET idx == Get(st.per_page_term_index, parent_page_id, 0) IN
            TermRefLoop(Tail(refs), term_id,
              [edges |-> Append(st.edges,
                                EdgeRow(parent_page_id, term_id, None, idx)),
               per_page_term_index |->
                 Put(st.per_page_term_index, parent_page_id, idx + 1)])

RECURSIVE TermLoop(_, _)
TermLoop(tids, st) ==
  IF tids = <<>> THEN st
  ELSE LET refs == TermRefsOf(items[terms.val[Head(tids)]].data) IN
       IF ~Truthy(refs) \/ refs.t = "other" THEN TermLoop(Tail(tids), st)
       ELSE TermLoop(Tail(tids), TermRefLoop(refs.l, Head(tids), st))

TermRefs ==
  /\ pc = "term_refs"
  /\ ctc' = TermLoop(terms.keys, [edges |-> ctc, per_page_term_index |-> <<>>]).edges
  /\ pc' = "entity_assets"
  /\ UNCHANGED mainVars
  /\ UNCHANGED <<inVars, content, ctt, cta, idxVars, assetVars, result>>

\* ------------------------------------------ _record_asset (lines 404-427)
\* The state _record_asset reads and writes, as one record.
AssetState ==
  [content |-> content, content_index |-> content_index, known_ids |-> known_ids,
   ctt |-> ctt, ctc |-> ctc, url_row_written |-> url_row_written,
   asset_ext_hint |-> asset_ext_hint, asset_url_map |-> asset_url_map,
   roles_per_asset |-> <<>>, encounter_order |-> <<>>]

\* lines 406-408: the asset is registered when its id is not known yet
RegisterAsset(a, aid) ==
  IF aid \notin a.known_ids
  THEN [a EXCEPT !.content = Append(@, ContentRow(aid, CONTENT_TYPE_ID["Asset"], None)),
                 !.content_index = Put(@, aid, Len(a.content) + 1),
                 !.known_ids = @ \cup {aid}]
  ELSE a

\* lines 422-427: the aliased row's label is raised to the role when the row has
\* no label or the role's priority is higher
UpgradeLabel(rows, pos, role) ==
  LET current == rows[pos].content_label_id IN
  IF (current = None \/ ROLE_PRIORITY(role) > ROLE_PRIORITY(current)) /\ role # None
  THEN [rows EXCEPT ![pos].content_label_id = role]
  ELSE rows

record_asset(a, aid, url, role) ==
  LET s1 == RegisterAsset(a, aid)
      norm == normalize_url(url, base_url)
      s2 == IF aid \notin s1.url_row_written
            THEN [s1 EXCEPT
                    !.ctt = Append(@, TextRow(aid, TT_URL, 0, StrVal(RenderUrl(norm)))),
                    !.url_row_written = @ \cup {aid}]
            ELSE s1
      ext == derive_asset_ext(url)
      s3 == [s2 EXCEPT
               !.asset_url_map = Put(@, aid, norm),
               !.asset_ext_hint = IF ext # "" /\ aid \notin DOMAIN @
                                  THEN Put(@, aid, ext) ELSE @,
               !.roles_per_asset = Put(@, aid, Get(@, aid, {}) \cup {role}),
               !.encounter_order = Append(@, aid)]
  IN IF aid \in DOMAIN s3.content_index
     THEN [s3 EXCEPT !.content = UpgradeLabel(@, s3.content_index[aid], role)]
     ELSE s3

\* ----------------------- the scan of one parent (lines 441-464, 482-505)
NoImage == [t |-> "other", u |-> EmptyUrl, d |-> <<>>]

\* url = _extract_image_url(val); if url: aid = derive_asset_id(url); if aid: ...
RecordIfAsset(a, url, role) ==
  IF url # EmptyUrl /\ derive_asset_id(url) # ""
  THEN record_asset(a, derive_asset_id(url), url, role)
  ELSE a

RECURSIVE ImageKeysLoop(_, _, _)
ImageKeysLoop(keys, img, a) ==
  IF keys = <<>> THEN a
  ELSE ImageKeysLoop(Tail(keys), img,
         RecordIfAsset(a, extract_image_url(Get(img, Head(keys), NoImage)),
                       IMAGE_ROLE_LABEL[Head(keys)]))

RECURSIVE ImagesListLoop(_, _)
ImagesListLoop(imgs, a) ==
  IF imgs = <<>> THEN a
  ELSE ImagesListLoop(Tail(imgs), RecordIfAsset(a, Head(imgs), GENERIC_IMAGE_ROLE))

ScanAssets(pdata, a) ==
  ImagesListLoop(pdata.images,
    ImageKeysLoop(IMAGE_URL_KEYS, pdata.img,
      RecordIfAsset(a, extract_image_url(Get(pdata.img, "image", NoImage)),
                    GENERIC_IMAGE_ROLE)))

\* sorted(list(roles), key=ROLE_PRIORITY, reverse=True); distinct roles have
\* distinct priorities.
RECURSIVE SortRoles(_)
SortRoles(roles) ==
  IF roles = {} THEN <<>>
  ELSE LET top == CHOOSE r \in roles :
                    \A q \in roles : ROLE_PRIORITY(q) <= ROLE_PRIORITY(r)
       IN <<top>> \o SortRoles(roles \ {top})

\* lines 469-471, 512-514: one edge per role, child_index = len(ctc)
RECURSIVE RoleEdges(_, _, _, _)
RoleEdges(roles, parent, aid, edges) ==
  IF roles = <<>> THEN edges
  ELSE RoleEdges(Tail(roles), parent, aid,
         Append(edges, EdgeRow(parent, aid, Head(roles), Len(edges))))

\* lines 467-471, 509-514: for aid in encounter_order
RECURSIVE EmitAssetEdges(_, _, _, _)
EmitAssetEdges(order, parent, rpa, edges) ==
  IF order = <<>> THEN edges
  ELSE EmitAssetEdges(Tail(order), parent, rpa,
         RoleEdges(SortRoles(rpa[Head(order)]), parent, Head(order), edges))

\* One parent: fresh roles_per_asset and encounter_order, the scan, the edges.
ParentAssets(parent, pdata, a) ==
  LET s == ScanAssets(pdata, [a EXCEPT !.roles_per_asset = <<>>,
                                       !.encounter_order = <<>>])
  IN [s EXCEPT !.ctc = EmitAssetEdges(s.encounter_order, parent,
                                      s.roles_per_asset, s.ctc)]

\* --------------------------------- Entity -> Asset (lines 429-471)
RECURSIVE EntityAssetsLoop(_, _, _)
EntityAssetsLoop(its, i, a) ==
  IF i > Len(its) THEN a
  ELSE IF Skipped(its[i], include_mask) THEN EntityAssetsLoop(its, i + 1, a)
  ELSE IF Get(type_cache, its[i].name, <<None, None>>)[1]
            \in {CONTENT_TYPE_ID["Page"], None}
       THEN EntityAssetsLoop(its, i + 1, a)
       ELSE EntityAssetsLoop(its, i + 1, ParentAssets(its[i].name, its[i].data, a))

SetAssetState(a) ==
  /\ content' = a.content
  /\ content_index' = a.content_index
  /\ known_ids' = a.known_ids
  /\ ctt' = a.ctt
  /\ ctc' = a.ctc
  /\ url_row_written' = a.url_row_written
  /\ asset_ext_hint' = a.asset_ext_hint
  /\ asset_url_map' = a.asset_url_map

EntityAssets ==
  /\ pc = "entity_assets"
  /\ SetAssetState(EntityAssetsLoop(items, 1, AssetState))
  /\ pc' = "page_assets"
  /\ UNCHANGED mainVars
  /\ UNCHANGED <<inVars, cta, include_mask, type_cache, items_index, curricula,
                 units, lessons, terms, pages, answer_text_index,
                 asset_meta_cache, enrich_queue, fetch_log, result>>

\* ----------------------------------- Page -> Asset (lines 473-516)
\* page_to_assets is written here and never read: it is not part of the state.
RECURSIVE PageAssetsLoop(_, _)
PageAssetsLoop(pids, a) ==
  IF pids = <<>> THEN a
  ELSE IF ~Get(include_mask, Head(pids), FALSE) THEN PageAssetsLoop(Tail(pids), a)
       ELSE PageAssetsLoop(Tail(pids),
              ParentAssets(Head(pids), items[pages.val[Head(pids)]].data, a))

PageAssets ==
  /\ pc = "page_assets"
  /\ SetAssetState(PageAssetsLoop(pages.keys, AssetState))
  /\ pc' = "answers"
  /\ UNCHANGED mainVars
  /\ UNCHANGED <<inVars, cta, include_mask, type_cache, items_index, curricula,
                 units, lessons, terms, pages, answer_text_index,
                 asset_meta_cache, enrich_queue, fetch_log, result>>

\* ----------------------- Question Page -> Answer (lines 518-601)
\* The state the answer loops read and write.
AnswerState ==
  [content |-> content, content_index |-> content_index, known_ids |-> known_ids,
   ctt |-> ctt, ctc |-> ctc]

\* Mutant: the answer is never registered.
ensure_answer_content_unregistered(q, answer_id) == q

ensure_answer_content(q, answer_id) ==
  IF answer_id # "" /\ answer_id \notin q.known_ids
  THEN [q EXCEPT
          !.content = Append(@, ContentRow(answer_id, CONTENT_TYPE_ID["Answer"], None)),
          !.content_index = Put(@, answer_id, Len(q.content) + 1),
          !.known_ids = @ \cup {answer_id}]
  ELSE q

extract_answer_id(ref) == basename(AnyPath(ref))

RECURSIVE PotentialLoop(_, _, _, _)
PotentialLoop(refs, qid, child_index, q) ==
  IF refs = <<>> THEN q
  ELSE LET answer_id == extract_answer_id(Head(refs)) IN
       IF answer_id = "" THEN PotentialLoop(Tail(refs), qid, child_index, q)
       ELSE LET q1 == ensure_answer_content(q, answer_id) IN
            PotentialLoop(Tail(refs), qid, child_index + 1,
              [q1 EXCEPT !.ctc = Append(@, EdgeRow(qid, answer_id, LBL_POTENTIAL,
                                                   child_index))])

\* lines 586-591: str(answerText or '') of the answer's record, else the
\* answer_text_index entry
AnswerTextOf(answer_id) ==
  LET direct ==
        IF answer_id \in DOMAIN items_index
        THEN LET v == Get(items[items_index[answer_id]].data.text, "answerText",
                          StrVal(""))
             IN IF v = IntVal(0) THEN "" ELSE PyStr(v).s
        ELSE ""
  IN IF direct # "" THEN direct ELSE Get(answer_text_index, answer_id, "")

\* Mutant: the answer-text row is written on the answer, not on the question.
RECURSIVE CorrectLoopRowOnAnswer(_, _, _, _)
CorrectLoopRowOnAnswer(refs, qid, child_index, q) ==
  IF refs = <<>> THEN q
  ELSE LET answer_id == extract_answer_id(Head(refs)) IN
       IF answer_id = "" THEN CorrectLoopRowOnAnswer(Tail(refs), qid, child_index, q)
       ELSE LET q1 == ensure_answer_content(q, answer_id)
                ans_text == AnswerTextOf(answer_id)
                q2 == [q1 EXCEPT !.ctc = Append(@, EdgeRow(qid, answer_id,
                                                           LBL_CORRECT, child_index))]
                q3 == IF ans_text # ""
                      THEN [q2 EXCEPT !.ctt = Append(@, TextRow(answer_id,
                                   TT_ANSWER_TEXT, child_index, StrVal(ans_text)))]
                      ELSE q2
            IN CorrectLoopRowOnAnswer(Tail(refs), qid, child_index + 1, q3)

RECURSIVE CorrectLoop(_, _, _, _)
CorrectLoop(refs, qid, child_index, q) ==
  IF refs = <<>> THEN q
  ELSE LET answer_id == extract_answer_id(Head(refs)) IN
       IF answer_id = "" THEN CorrectLoop(Tail(refs), qid, child_index, q)
       ELSE LET q1 == ensure_answer_content(q, answer_id)
                ans_text == AnswerTextOf(answer_id)
                q2 == [q1 EXCEPT !.ctc = Append(@, EdgeRow(qid, answer_id,
                                                           LBL_CORRECT, child_index))]
                q3 == IF ans_text # ""
                      THEN [q2 EXCEPT !.ctt = Append(@, TextRow(qid, TT_ANSWER_TEXT,
                                                 child_index, StrVal(ans_text)))]
                      ELSE q2
            IN CorrectLoop(Tail(refs), qid, child_index + 1, q3)

RECURSIVE QuestionLoop(_, _, _)
QuestionLoop(its, i, q) ==
  IF i > Len(its) THEN q
  ELSE IF Skipped(its[i], include_mask) THEN QuestionLoop(its, i + 1, q)
  ELSE IF Get(type_cache, its[i].name, <<None, None>>)
            # <<CONTENT_TYPE_ID["Page"], LABEL_MAP["questionPage"]>>
       THEN QuestionLoop(its, i + 1, q)
       ELSE QuestionLoop(its, i + 1,
              CorrectLoop(RefList(its[i], "correctAnswers"), its[i].name, 0,
                PotentialLoop(RefList(its[i], "potentialAnswers"), its[i].name, 0, q)))

\* lines 603-612 and sorted(url_assets) of line 665.  NAME_ORDER lists the
\* identifiers of the inputs in the order Python's string comparison gives.
NAME_ORDER == << "a", "b", "c", "img", "z" >>

UrlAssetIds(rows) ==
  { rows[i].content_cms_id : i \in { j \in 1..Len(rows) :
       rows[j].text_type_id = TT_URL /\ rows[j].content_cms_id # "" } }

RECURSIVE SortedFrom(_, _)
SortedFrom(i, S) ==
  IF i > Len(NAME_ORDER) THEN <<>>
  ELSE (IF NAME_ORDER[i] \in S THEN <<NAME_ORDER[i]>> ELSE <<>>)
       \o SortedFrom(i + 1, S)

Sorted(S) == SortedFrom(1, S)

QuestionAnswers ==
  /\ pc = "answers"
  /\ LET q == QuestionLoop(items, 1, AnswerState) IN
       /\ content' = q.content
       /\ content_index' = q.content_index
       /\ known_ids' = q.known_ids
       /\ ctt' = q.ctt
       /\ ctc' = q.ctc
  /\ pc' = "url_assets"
  /\ UNCHANGED mainVars
  /\ UNCHANGED <<inVars, cta, include_mask, type_cache, items_index, curricula,
                 units, lessons, terms, pages, answer_text_index, assetVars,
                 result>>

CollectUrlAssets ==
  /\ pc = "url_assets"
  /\ enrich_queue' = Sorted(UrlAssetIds(ctt))
  /\ pc' = "enrich"
  /\ UNCHANGED mainVars
  /\ UNCHANGED <<inVars, tabVars, idxVars, url_row_written, asset_ext_hint,
                 asset_meta_cache, asset_url_map, fetch_log, result>>

\* ------------------------------ fetch_asset_metadata (lines 147-175)
\* What the remote answers: a failure (ok FALSE: network error, timeout,
\* undecodable body) or a JSON body.  dc:title is [t, s]: missing or null
\* (t "none"), a string (t "str") or a list (t "list", s its first element,
\* empty FALSE) or an empty list (empty TRUE).  A dimension is [t, n]:
\* missing (t "none"), a number or a numeric string (t "num") or something
\* int() rejects (t "bad").
NoMeta == [none |-> TRUE, title |-> "", width |-> 0, height |-> 0, mime |-> ""]

to_int(v) == IF v.t = "num" THEN [none |-> FALSE, n |-> v.n]
             ELSE [none |-> TRUE, n |-> 0]

ParseMeta(asset_id, body) ==
  LET title == IF body.title.t = "list"
               THEN (IF body.title.empty THEN asset_id ELSE body.title.s)
               ELSE IF body.title.t = "str" /\ body.title.s # "" THEN body.title.s
               ELSE asset_id
      width == to_int(body.width)
      height == to_int(body.height)
  IN [none |-> FALSE, title |-> title,
      width |-> IF width.none THEN 0 ELSE width.n,
      height |-> IF height.none THEN 0 ELSE height.n,
      mime |-> IF body.format # "" THEN body.format ELSE "image/jpeg"]

fetch_asset_metadata(asset_id, ext_hint, resp) ==
  IF asset_id = "" \/ ext_hint = "" THEN NoMeta
  ELSE IF ~resp.ok THEN NoMeta
  ELSE ParseMeta(asset_id, resp.body)

\* ---------------------- _enrich_asset_ctt_rows_for (lines 614-663)
\* Mutant: rows are matched on a key they do not have, nothing is found.
ExistingTypesNone(aid, rows) == {}

ExistingTypes(aid, rows) ==
  { rows[i].text_type_id : i \in { j \in 1..Len(rows) : rows[j].content_cms_id = aid } }

\* lines 636-640
ShouldFetch(aid, url_map) == aid \in DOMAIN url_map /\ InDam(url_map[aid])

ExtOf(aid, ext_hint, url_map) ==
  IF Get(ext_hint, aid, "") # "" THEN ext_hint[aid]
  ELSE IF aid \in DOMAIN url_map THEN derive_asset_ext(url_map[aid]) ELSE ""

\* Mutant: no rows without metadata (if meta is None: return).
EnrichRowsSkipNone(aid, meta, existing) ==
  IF meta.none THEN <<>>
  ELSE (IF TT_TITLE \notin existing
        THEN <<TextRow(aid, TT_TITLE, 0, StrVal(meta.title))>> ELSE <<>>)
       \o (IF TT_WIDTH \notin existing
           THEN <<TextRow(aid, TT_WIDTH, 0, IntVal(meta.width))>> ELSE <<>>)
       \o (IF TT_HEIGHT \notin existing
           THEN <<TextRow(aid, TT_HEIGHT, 0, IntVal(meta.height))>> ELSE <<>>)
       \o (IF TT_MIME \notin existing
           THEN <<TextRow(aid, TT_MIME, 0, StrVal(meta.mime))>> ELSE <<>>)

\* lines 656-663
EnrichRows(aid, meta, existing) ==
  LET title == IF meta.title # "" THEN meta.title ELSE aid
      mime == IF meta.mime # "" THEN meta.mime ELSE "image/jpeg"
  IN (IF TT_TITLE \notin existing
      THEN <<TextRow(aid, TT_TITLE, 0, StrVal(title))>> ELSE <<>>)
     \o (IF TT_WIDTH \notin existing
         THEN <<TextRow(aid, TT_WIDTH, 0, IntVal(meta.width))>> ELSE <<>>)
     \o (IF TT_HEIGHT \notin existing
         THEN <<TextRow(aid, TT_HEIGHT, 0, IntVal(meta.height))>> ELSE <<>>)
     \o (IF TT_MIME \notin existing
         THEN <<TextRow(aid, TT_MIME, 0, StrVal(mime))>> ELSE <<>>)

\* Mutant: the lookup is made for every missing kind, without the cache.
enrich_fetch_per_kind(aid, e, resp) ==
  LET existing == ExistingTypes(aid, e.ctt) IN
  IF aid = "" THEN e
  ELSE IF {TT_TITLE, TT_WIDTH, TT_HEIGHT, TT_MIME} \subseteq existing THEN e
  ELSE LET ext == ExtOf(aid, asset_ext_hint, asset_url_map)
           wanted == ShouldFetch(aid, asset_url_map) /\ ext # ""
           meta == IF wanted THEN fetch_asset_metadata(aid, ext, resp) ELSE NoMeta
           rows == EnrichRows(aid, meta, existing)
       IN [ctt |-> e.ctt \o rows,
           asset_meta_cache |-> IF wanted THEN Put(e.asset_meta_cache, aid, meta)
                                ELSE e.asset_meta_cache,
           fetch_log |-> IF wanted THEN e.fetch_log \o [i \in 1..Len(rows) |-> aid]
                         ELSE e.fetch_log]

\* e is [ctt, asset_meta_cache, fetch_log]; resp is what the remote answers if
\* it is asked.
enrich_asset_ctt_rows_for(aid, e, resp) ==
  LET existing == ExistingTypes(aid, e.ctt) IN
  IF aid = "" THEN e
  ELSE IF {TT_TITLE, TT_WIDTH, TT_HEIGHT, TT_MIME} \subseteq existing THEN e
  ELSE LET ext == ExtOf(aid, asset_ext_hint, asset_url_map)
           wanted == ShouldFetch(aid, asset_url_map) /\ ext # ""
           fetches == wanted /\ aid \notin DOMAIN e.asset_meta_cache
           meta == IF fetches THEN fetch_asset_metadata(aid, ext, resp)
                   ELSE IF wanted THEN e.asset_meta_cache[aid]
                   ELSE NoMeta
       IN [ctt |-> e.ctt \o EnrichRows(aid, meta, existing),
           asset_meta_cache |-> IF fetches THEN Put(e.asset_meta_cache, aid, meta)
                                ELSE e.asset_meta_cache,
           fetch_log |-> IF fetches THEN Append(e.fetch_log, aid) ELSE e.fetch_log]

\* What the remote may answer to one lookup.
NoField == [t |-> "none", n |-> 0]

Responses ==
  { [ok |-> FALSE,
     body |-> [title |-> [t |-> "none", s |-> "", empty |-> FALSE], format |-> "",
               width |-> NoField, height |-> NoField]],
    [ok |-> TRUE,
     body |-> [title |-> [t |-> "list", s |-> "", empty |-> TRUE], format |-> "",
               width |-> [t |-> "bad", n |-> 0], height |-> NoField]],
    [ok |-> TRUE,
     body |-> [title |-> [t |-> "list", s |-> "Pic", empty |-> FALSE],
               format |-> "image/png",
               width |-> [t |-> "num", n |-> 640],
               height |-> [t |-> "num", n |-> 480]]] }

\* One iteration of the loop of lines 665-668.
EnrichOne ==
  /\ pc = "enrich"
  /\ enrich_queue # <<>>
  /\ \E resp \in Responses :
       LET e == enrich_asset_ctt_rows_for(Head(enrich_queue),
                  [ctt |-> ctt, asset_meta_cache |-> asset_meta_cache,
                   fetch_log |-> fetch_log], resp)
       IN /\ ctt' = e.ctt
          /\ asset_meta_cache' = e.asset_meta_cache
          /\ fetch_log' = e.fetch_log
  /\ enrich_queue' = Tail(enrich_queue)
  /\ UNCHANGED mainVars
  /\ UNCHANGED <<pc, inVars, content, ctc, cta, idxVars, url_row_written,
                 asset_ext_hint, asset_url_map, result>>

\* ------------------------------ De-dup content_to_text (lines 672-681)
\* Mutant: text_index is left out of the key.
DedupKeyNoIndex(row) ==
  <<row.content_cms_id, row.locale_id, row.text_type_id, PyStr(row.text_value)>>

DedupKey(row) ==
  <<row.content_cms_id, row.locale_id, row.text_type_id, row.text_index,
    PyStr(row.text_value)>>

RECURSIVE DedupLoop(_, _, _, _)
DedupLoop(rows, i, seen, deduped) ==
  IF i > Len(rows) THEN deduped
  ELSE IF DedupKey(rows[i]) \in seen THEN DedupLoop(rows, i + 1, seen, deduped)
       ELSE DedupLoop(rows, i + 1, seen \cup {DedupKey(rows[i])},
                      Append(deduped, rows[i]))

\* Mutant: a kept row is inserted at the front (deduped.insert(0, row)).
RECURSIVE DedupLoopPrepend(_, _, _, _)
DedupLoopPrepend(rows, i, seen, deduped) ==
  IF i > Len(rows) THEN deduped
  ELSE IF DedupKey(rows[i]) \in seen
       THEN DedupLoopPrepend(rows, i + 1, seen, deduped)
       ELSE DedupLoopPrepend(rows, i + 1, seen \cup {DedupKey(rows[i])},
                             <<rows[i]>> \o deduped)

dedup_ctt_prepend(rows) == DedupLoopPrepend(rows, 1, {}, <<>>)

dedup_ctt(rows) == DedupLoop(rows, 1, {}, <<>>)

\* Lines 672-683: the de-duplicated text table is returned with content, ctc
\* and cta as they stand; ctt keeps the accumulated rows.
DedupAndReturn ==
  /\ pc = "enrich"
  /\ enrich_queue = <<>>
  /\ result' = dedup_ctt(ctt)
  /\ pc' = "done"
  /\ UNCHANGED mainVars
  /\ UNCHANGED <<inVars, tabVars, idxVars, assetVars>>

\* ------------------------------------------------------------ inputs
\* The records transform is run on.  Names and asset file stems come from
\* NAME_ORDER, so that an asset id can equal a record name.
EmptyData ==
  [text |-> <<>>, img |-> <<>>, images |-> <<>>, refs |-> <<>>, trefs |-> <<>>,
   categories |-> <<>>, cadence |-> "", tags |-> <<>>]

Rec(name, path, data) == [name |-> name, path |-> path, data |-> data]

RefD(path) == [t |-> "dict", path |-> path]
RefS(path) == [t |-> "str", path |-> path]
RefO == [t |-> "other", path |-> <<>>]

ImgStr(u) == [t |-> "str", u |-> u, d |-> <<>>]
ImgDict(d) == [t |-> "dict", u |-> EmptyUrl, d |-> d]

UrlImgAbs == [host |-> "https://h1", dir |-> DAM_DIR, parts |-> <<"img", "png">>]
UrlImgRel == [host |-> "", dir |-> DAM_DIR, parts |-> <<"img", "PNG">>]
UrlImgNoExt == [host |-> "", dir |-> DAM_DIR, parts |-> <<"img">>]
UrlADam == [host |-> "", dir |-> DAM_DIR, parts |-> <<"a", "png">>]
UrlBOther == [host |-> "", dir |-> "/other/", parts |-> <<"b", "v2", "jpg">>]
UrlNoFile == [host |-> "https://h1", dir |-> DAM_DIR, parts |-> <<>>]

RecNames == {"a", "b"}

CurriculumRecords ==
  { Rec(n, <<"content", "curriculum", n>>, d) : n \in RecNames,
    d \in { EmptyData,
            [EmptyData EXCEPT !.refs = ("units" :>
               << RefS(<<"unit", "b">>), RefD(<<"unit", "z">>), RefO,
                  RefD(<<"curriculum", "a", "unit", "b">>) >>)] } }

UnitRecords ==
  { Rec(n, <<"content", "curriculum", "a", "unit", n>>, d) : n \in RecNames,
    d \in { [EmptyData EXCEPT !.text = ("title" :> StrVal("T")),
                              !.categories = <<"dm", "XX">>,
                              !.cadence = "daily", !.tags = <<"DM", "zz">>],
            [EmptyData EXCEPT !.refs = ("lessons" :>
               << RefO, RefD(<<"lesson", "b">>), RefD(<<"lesson", "a">>) >>)],
            [EmptyData EXCEPT !.img = ("image" :> ImgStr(UrlImgAbs))
                                      @@ ("titleImage" :> ImgStr(UrlImgAbs))
                                      @@ ("icon" :> ImgDict(("src" :> EmptyUrl)
                                                           @@ ("path" :> UrlADam)))] } }

LessonRecords ==
  { Rec(n, <<"lesson", n>>, d) : n \in RecNames,
    d \in { [EmptyData EXCEPT !.refs = ("pages" :>
               << RefD(<<"lesson", "imagePage", "b">>), RefO,
                  RefD(<<"pages", "a">>) >>)],
            [EmptyData EXCEPT !.img = ("posterImage" :> ImgStr(UrlImgRel)),
                              !.images = <<UrlBOther, EmptyUrl, UrlImgNoExt>>] } }

ImagePageRecords ==
  { Rec(n, <<"lesson", "imagePage", n>>, d) : n \in RecNames,
    d \in { [EmptyData EXCEPT !.text = ("titleRequiredEnglish" :> StrVal("T"))
                                       @@ ("lastRequiredPageIndex" :> IntVal(0))],
            [EmptyData EXCEPT !.img = ("heroImage" :> ImgStr(UrlImgAbs))
                                      @@ ("image" :> ImgStr(UrlImgAbs))],
            [EmptyData EXCEPT !.img = ("image" :> ImgStr(UrlADam))
                                      @@ ("thumbnailImage" :> ImgStr(UrlNoFile)),
                              !.images = <<UrlImgRel>>] } }

QuestionPageRecords ==
  { Rec(n, <<"questionPage", n>>, d) : n \in RecNames,
    d \in { [EmptyData EXCEPT !.refs = ("potentialAnswers" :>
               << RefS(<<"answers", "a">>), RefO, RefD(<<"answers", "z">>) >>)],
            [EmptyData EXCEPT !.text = ("answerText" :> StrVal("Yes")),
                              !.refs = ("correctAnswers" :>
               << RefO, RefD(<<"answers", "b">>), RefD(<<"answers", "a">>) >>)] } }

AnswerRecords ==
  { Rec(n, <<"question-answer", n>>, d) : n \in RecNames,
    d \in { EmptyData, [EmptyData EXCEPT !.text = ("answerText" :> StrVal("Yes"))] } }

TermRecords ==
  { Rec(n, <<"term", n>>, d) : n \in RecNames,
    d \in { [EmptyData EXCEPT !.trefs = ("contentReference" :>
               [t |-> "dict", l |-> <<RefD(<<"imagePage", "b">>)>>])],
            [EmptyData EXCEPT !.trefs =
               ("contentReference" :> [t |-> "list", l |-> <<>>])
               @@ ("contentReferences" :> [t |-> "list", l |->
                     << RefS(<<"imagePage", "a">>), RefO,
                        RefD(<<"imagePage", "a">>) >>])] } }

\* No type token and no page-kind token in the path.
UntypedRecords ==
  { Rec(n, <<"content", "misc", n>>, d) : n \in RecNames,
    d \in { [EmptyData EXCEPT !.text = ("answerText" :> StrVal("No")),
                              !.img = ("image" :> ImgStr(UrlImgAbs))] } }

\* A record without a name.
NamelessRecords ==
  { Rec("", <<"unit", "x">>, [EmptyData EXCEPT !.text = ("title" :> StrVal("T"))]) }

Records ==
  CurriculumRecords \cup UnitRecords \cup LessonRecords \cup ImagePageRecords
    \cup QuestionPageRecords \cup AnswerRecords \cup TermRecords
    \cup UntypedRecords \cup NamelessRecords

RECURSIVE SeqsUpTo(_, _)
SeqsUpTo(S, n) ==
  IF n = 0 THEN { <<>> }
  ELSE LET shorter == SeqsUpTo(S, n - 1) IN
       shorter \cup { Append(q, x) : q \in { r \in shorter : Len(r) = n - 1 }, x \in S }

\* A curriculum without a units list and units under it or elsewhere.
HierarchyRecords ==
  { Rec("a", <<"content", "curriculum", "a">>, EmptyData),
    Rec("b", <<"content", "curriculum", "a", "unit", "b">>, EmptyData),
    Rec("c", <<"content", "curriculum", "a", "unit", "c">>, EmptyData),
    Rec("d", <<"content", "curriculum", "a", "unit", "d">>, EmptyData),
    Rec("b", <<"content", "x", "a", "unit", "b">>, EmptyData),
    Rec("z", <<"content", "curriculum", "z", "unit", "z">>, EmptyData) }

Inputs ==
  SeqsUpTo(Records, MaxItems) \cup SeqsUpTo(HierarchyRecords, MaxItems + 2)

\* ------------------------------------------------------ specification
\* main's view of the world: the parsed JSON document and the output file.
NoSource == [t |-> "none"]
NoFile == [written |-> FALSE]

Init ==
  /\ pc = "inclusion"
  /\ items \in Inputs
  /\ base_url = ""
  /\ content = <<>> /\ ctt = <<>> /\ ctc = <<>> /\ cta = <<>>
  /\ content_index = <<>> /\ known_ids = {}
  /\ include_mask = <<>> /\ type_cache = <<>> /\ items_index = <<>>
  /\ curricula = EmptyBucket /\ units = EmptyBucket /\ lessons = EmptyBucket
  /\ terms = EmptyBucket /\ pages = EmptyBucket
  /\ answer_text_index = <<>>
  /\ url_row_written = {} /\ asset_ext_hint = <<>> /\ asset_meta_cache = <<>>
  /\ asset_url_map = <<>>
  /\ enrich_queue = <<>> /\ fetch_log = <<>>
  /\ result = <<>>
  /\ src = NoSource /\ out_file = NoFile /\ error = ""

Next ==
  \/ Inclusion
  \/ ContentRows
  \/ TextFieldsPhase
  \/ AnswerTextIndex
  \/ AttributesPhase
  \/ CurriculumToUnit
  \/ UnitToLesson
  \/ LessonToPage
  \/ TermRefs
  \/ EntityAssets
  \/ PageAssets
  \/ QuestionAnswers
  \/ CollectUrlAssets
  \/ EnrichOne
  \/ DedupAndReturn

Spec == Init /\ [][Next]_vars

\* ---------------------------------------------------------------------------
\* The de-duplication pass (lines 672-681) on its own: it is run over an
\* arbitrary sequence of text rows and then over its own output.
\* ---------------------------------------------------------------------------

\* Text rows as the pipeline writes them: str() values from records, integer
\* width and height from the enricher.
DedupRows ==
  { TextRow("a", TT_WIDTH, 0, IntVal(0)),
    TextRow("a", TT_WIDTH, 0, StrVal("0")),
    TextRow("a", TT_TITLE, 0, StrVal("T")),
    TextRow("a", TT_ANSWER_TEXT, 1, StrVal("T")),
    TextRow("b", TT_TITLE, 0, StrVal("T")) }

InitDedup ==
  /\ pc = "dedup_first"
  /\ ctt \in SeqsUpTo(DedupRows, MaxDedupLen)
  /\ items = <<>>
  /\ base_url = ""
  /\ content = <<>> /\ ctc = <<>> /\ cta = <<>>
  /\ content_index = <<>> /\ known_ids = {}
  /\ include_mask = <<>> /\ type_cache = <<>> /\ items_index = <<>>
  /\ curricula = EmptyBucket /\ units = EmptyBucket /\ lessons = EmptyBucket
  /\ terms = EmptyBucket /\ pages = EmptyBucket
  /\ answer_text_index = <<>>
  /\ url_row_written = {} /\ asset_ext_hint = <<>> /\ asset_meta_cache = <<>>
  /\ asset_url_map = <<>>
  /\ enrich_queue = <<>> /\ fetch_log = <<>>
  /\ result = <<>>
  /\ src = NoSource /\ out_file = NoFile /\ error = ""

DedupFirst ==
  /\ pc = "dedup_first"
  /\ result' = dedup_ctt(ctt)
  /\ pc' = "dedup_second"
  /\ UNCHANGED mainVars
  /\ UNCHANGED <<inVars, tabVars, idxVars, assetVars>>

DedupSecond ==
  /\ pc = "dedup_second"
  /\ result' = dedup_ctt(result)
  /\ pc' = "dedup_done"
  /\ UNCHANGED mainVars
  /\ UNCHANGED <<inVars, tabVars, idxVars, assetVars>>

NextDedup ==
  \/ DedupFirst
  \/ DedupSecond

SpecDedup == InitDedup /\ [][NextDedup]_vars

\* ---------------------------------------------------------------------------
\* main (lines 686-728): the parsed document is checked, transform is run over
\* its record list and the four tables are written to the output file.
\* ---------------------------------------------------------------------------

\* A parsed JSON document: an object with or without the key 'data', or a
\* top-level array. The value of 'data' is a list of records or something else.
SrcObject(d) == [t |-> "dict", has_data |-> TRUE, data |-> d]
SrcNoData == [t |-> "dict", has_data |-> FALSE]
SrcArray == [t |-> "list"]

DataList(its) == [t |-> "list", v |-> its]
DataNull == [t |-> "null"]
DataDict == [t |-> "dict"]
DataStr == [t |-> "str"]

Sources ==
  { SrcObject(DataList(its)) : its \in Inputs }
    \cup { SrcObject(DataNull), SrcObject(DataDict), SrcObject(DataStr),
           SrcNoData, SrcArray }

InitMain ==
  /\ pc = "main"
  /\ src \in Sources
  /\ items = <<>>
  /\ base_url = ""
  /\ content = <<>> /\ ctt = <<>> /\ ctc = <<>> /\ cta = <<>>
  /\ content_index = <<>> /\ known_ids = {}
  /\ include_mask = <<>> /\ type_cache = <<>> /\ items_index = <<>>
  /\ curricula = EmptyBucket /\ units = EmptyBucket /\ lessons = EmptyBucket
  /\ terms = EmptyBucket /\ pages = EmptyBucket
  /\ answer_text_index = <<>>
  /\ url_row_written = {} /\ asset_ext_hint = <<>> /\ asset_meta_cache = <<>>
  /\ asset_url_map = <<>>
  /\ enrich_queue = <<>> /\ fetch_log = <<>>
  /\ result = <<>>
  /\ out_file = NoFile /\ error = ""

\* Lines 719-723: items = src.get('data', []); a value that is not a list
\* raises ValueError, a document that is not an object has no get; otherwise
\* transform is called with the list.
MainLoad ==
  /\ pc = "main"
  /\ IF src.t # "dict"
     THEN /\ error' = "AttributeError" /\ pc' = "raised" /\ items' = items
     ELSE LET got == IF src.has_data THEN src.data ELSE DataList(<<>>) IN
          IF got.t # "list"
          THEN /\ error' = "ValueError" /\ pc' = "raised" /\ items' = items
          ELSE /\ items' = got.v /\ pc' = "inclusion" /\ error' = error
  /\ UNCHANGED <<base_url, tabVars, idxVars, assetVars, result, src, out_file>>

\* Lines 725-728: json.dump of what transform returned.
MainWrite ==
  /\ pc = "done"
  /\ out_file' = [written |-> TRUE, content |-> content,
                  content_to_text |-> result, content_to_content |-> ctc,
                  content_to_attribute |-> cta]
  /\ pc' = "exit"
  /\ UNCHANGED <<inVars, tabVars, idxVars, assetVars, result, src, error>>

NextMain ==
  \/ MainLoad
  \/ Next
  \/ MainWrite

SpecMain == InitMain /\ [][NextMain]_vars

\* infer_type_label on its own: one record, its path any sequence of at most
\* MaxPathLen segments, each a page-kind token, an entity-kind token or
\* neither (a segment that only contains a token is not one).
MaxPathLen == 3

PathSegments ==
  DOMAIN LABEL_MAP \cup DOMAIN PATH_TOKEN_TO_TYPE_ID
    \cup {"content", "imagePages", "units"}

InferPaths == SeqsUpTo(PathSegments, MaxPathLen)

InitInfer ==
  /\ pc = "inclusion"
  /\ items \in { <<Rec("a", p, EmptyData)>> : p \in InferPaths }
  /\ base_url = ""
  /\ content = <<>> /\ ctt = <<>> /\ ctc = <<>> /\ cta = <<>>
  /\ content_index = <<>> /\ known_ids = {}
  /\ include_mask = <<>> /\ type_cache = <<>> /\ items_index = <<>>
  /\ curricula = EmptyBucket /\ units = EmptyBucket /\ lessons = EmptyBucket
  /\ terms = EmptyBucket /\ pages = EmptyBucket
  /\ answer_text_index = <<>>
  /\ url_row_written = {} /\ asset_ext_hint = <<>> /\ asset_meta_cache = <<>>
  /\ asset_url_map = <<>>
  /\ enrich_queue = <<>> /\ fetch_log = <<>>
  /\ result = <<>>
  /\ src = NoSource /\ out_file = NoFile /\ error = ""

NextInfer == Inclusion

SpecInfer == InitInfer /\ [][NextInfer]_vars

\* ------------------------------------------------ the returned tables
Returned == pc = "done"

CmsIds == { content[i].cms_id : i \in DOMAIN content }

RowsOf(id) == { i \in DOMAIN content : content[i].cms_id = id }

ImageRoles == { IMAGE_ROLE_LABEL[k] : k \in DOMAIN IMAGE_ROLE_LABEL }

AnswerRoles == { LBL_POTENTIAL, LBL_CORRECT }

\* The edges parent -> child written by the two asset phases.
AssetEdges(parent, child) ==
  { i \in DOMAIN ctc : /\ ctc[i].parent_cms_id = parent
                       /\ ctc[i].child_cms_id = child
                       /\ ctc[i].child_content_label_id \in ImageRoles }

HasKind(rows, id, kind) ==
  \E i \in DOMAIN rows : rows[i].content_cms_id = id /\ rows[i].text_type_id = kind

ItemNames == { items[i].name : i \in DOMAIN items }

\* C1: after transform returns, every content_cms_id of a text row and of an
\* attribute row, and every parent_cms_id and child_cms_id of an edge, is the
\* cms_id of a content row.
C1_ForeignKeys ==
  Returned =>
    /\ \A i \in DOMAIN result : result[i].content_cms_id \in CmsIds
    /\ \A i \in DOMAIN cta : cta[i].content_cms_id \in CmsIds
    /\ \A i \in DOMAIN ctc : /\ ctc[i].parent_cms_id \in CmsIds
                             /\ ctc[i].child_cms_id \in CmsIds

\* A run that auto-registered an answer no record describes, wrote attribute
\* rows and text rows.
C1_Witness ==
  /\ Returned
  /\ \E i \in DOMAIN content :
       /\ content[i].content_type_id = CONTENT_TYPE_ID["Answer"]
       /\ content[i].cms_id \notin ItemNames
       /\ \E j \in DOMAIN ctc : ctc[j].child_cms_id = content[i].cms_id
  /\ cta # <<>>
  /\ result # <<>>

\* C2: the returned content table holds at most one row per cms_id, also when
\* several records carry the same name.
C2_UniqueCmsId ==
  Returned => \A i, j \in DOMAIN content :
                content[i].cms_id = content[j].cms_id => i = j

\* C3: an asset referenced under N distinct roles from one parent has exactly N
\* edges from that parent, each with its own role label, and the asset's
\* content_label_id is the highest-priority role among all its incoming edges.
C3_OneEdgePerRole ==
  Returned =>
    /\ \A i, j \in DOMAIN ctc :
         ( /\ i # j
           /\ ctc[i].child_content_label_id \in ImageRoles
           /\ ctc[j].child_content_label_id \in ImageRoles
           /\ ctc[i].parent_cms_id = ctc[j].parent_cms_id
           /\ ctc[i].child_cms_id = ctc[j].child_cms_id )
         => ctc[i].child_content_label_id # ctc[j].child_content_label_id
    /\ \A k \in DOMAIN content :
         content[k].content_type_id = CONTENT_TYPE_ID["Asset"] =>
           \A i \in DOMAIN ctc :
             ( /\ ctc[i].child_cms_id = content[k].cms_id
               /\ ctc[i].child_content_label_id \in ImageRoles )
             => ROLE_PRIORITY(ctc[i].child_content_label_id)
                  <= ROLE_PRIORITY(content[k].content_label_id)

\* The scenario of C4: two page records, whose names no other record carries,
\* reference one image URL under exactly the keys heroImage and image.
HeroAndImage(it, u) ==
  /\ it.name # ""
  /\ infer_type_label(it.path)[1] = CONTENT_TYPE_ID["Page"]
  /\ \A k \in DOMAIN items : items[k].name = it.name => items[k] = it
  /\ DOMAIN it.data.img = {"heroImage", "image"}
  /\ it.data.img["heroImage"] = ImgStr(u)
  /\ it.data.img["image"] = ImgStr(u)
  /\ it.data.images = <<>>
  /\ derive_asset_id(u) # ""

TwoPagesOneImage(i, j) ==
  /\ i \in DOMAIN items /\ j \in DOMAIN items
  /\ items[i].name # items[j].name
  /\ items[i].data.img # <<>>
  /\ "heroImage" \in DOMAIN items[i].data.img
  /\ items[i].data.img["heroImage"].t = "str"
  /\ HeroAndImage(items[i], items[i].data.img["heroImage"].u)
  /\ HeroAndImage(items[j], items[i].data.img["heroImage"].u)

SharedAsset(i) == derive_asset_id(items[i].data.img["heroImage"].u)

\* C4: the asset has one content row and each of the two pages has two edges
\* to it, the first with the hero-image role and the second with another,
\* generic-image role.
C4_HeroThenGeneric ==
  Returned =>
    \A i, j \in DOMAIN items : TwoPagesOneImage(i, j) =>
      /\ Cardinality(RowsOf(SharedAsset(i))) = 1
      /\ \A p \in {items[i].name, items[j].name} :
           LET E == AssetEdges(p, SharedAsset(i)) IN
             /\ Cardinality(E) = 2
             /\ \E e1, e2 \in E :
                  /\ e1 < e2
                  /\ ctc[e1].child_content_label_id = IMAGE_ROLE_LABEL["heroImage"]
                  /\ ctc[e2].child_content_label_id # ctc[e1].child_content_label_id

\* The last record of the list that carries the name.
LastOf(n) ==
  items[CHOOSE i \in DOMAIN items :
          /\ items[i].name = n
          /\ \A j \in DOMAIN items : items[j].name = n => j <= i]

Untyped(path) == infer_type_label(path) = <<None, None>>

\* C5: a record whose path has no type token and no page-kind token
\* has no content row with its name and its name is on no edge, whatever
\* references it.
C5_UntypedUnreachable ==
  Returned =>
    \A k \in DOMAIN items :
      (items[k].name # "" /\ Untyped(items[k].path)) =>
        /\ items[k].name \notin CmsIds
        /\ \A e \in DOMAIN ctc : /\ ctc[e].parent_cms_id # items[k].name
                                 /\ ctc[e].child_cms_id # items[k].name

\* C5 amended: a name whose last record has such a path is never a parent and
\* never the child of a unit, lesson, page or term edge; it has a content row
\* only when an answer reference or an asset id equals it: one row, of type
\* Answer or Asset, the name being the child of answer and asset edges only.
C5_ExcludedOnlyAutoRegistered ==
  Returned =>
    \A n \in ItemNames \ {""} :
      Untyped(LastOf(n).path) =>
        /\ Cardinality(RowsOf(n)) <= 1
        /\ \A r \in RowsOf(n) :
             /\ content[r].content_type_id
                  \in {CONTENT_TYPE_ID["Answer"], CONTENT_TYPE_ID["Asset"]}
             /\ \E e \in DOMAIN ctc : ctc[e].child_cms_id = n
        /\ \A e \in DOMAIN ctc :
             /\ ctc[e].parent_cms_id # n
             /\ ctc[e].child_cms_id = n =>
                  ctc[e].child_content_label_id \in ImageRoles \cup AnswerRoles

C5_Witness ==
  /\ Returned
  /\ \E n \in ItemNames \ {""} :
       /\ Untyped(LastOf(n).path)
       /\ \E r \in RowsOf(n) :
            content[r].content_type_id = CONTENT_TYPE_ID["Answer"]
       /\ \E e \in DOMAIN ctc : /\ ctc[e].child_cms_id = n
                                /\ ctc[e].child_content_label_id = LBL_POTENTIAL

\* The rows of a sequence that no earlier row equals, in order.
RECURSIVE KeepFirst(_, _)
KeepFirst(rows, i) ==
  IF i > Len(rows) THEN <<>>
  ELSE (IF \E j \in 1..(i - 1) : rows[j] = rows[i] THEN <<>> ELSE <<rows[i]>>)
       \o KeepFirst(rows, i + 1)

\* C6: the returned text table has no two rows with the same (content_cms_id,
\* locale_id, text_type_id, text_index, text_value), and it is the accumulated
\* row sequence without its later exact duplicates, order kept.
C6_NoDuplicateText ==
  Returned =>
    /\ \A i, j \in DOMAIN result : result[i] = result[j] => i = j
    /\ result = KeepFirst(ctt, 1)

\* A run whose accumulated rows held duplicates.
C6_Witness == Returned /\ Len(result) < Len(ctt) /\ Len(result) >= 2

\* C8: fetch_asset_metadata is called at most once for an asset identifier.
C8_FetchOncePerAsset ==
  \A i, j \in DOMAIN fetch_log : fetch_log[i] = fetch_log[j] => i = j

\* An asset that was looked up and is referenced by two parents.
C8_Witness ==
  /\ Returned
  /\ \E i \in DOMAIN fetch_log : \E e1, e2 \in DOMAIN ctc :
       /\ ctc[e1].child_cms_id = fetch_log[i]
       /\ ctc[e2].child_cms_id = fetch_log[i]
       /\ ctc[e1].child_content_label_id \in ImageRoles
       /\ ctc[e2].child_content_label_id \in ImageRoles
       /\ ctc[e1].parent_cms_id # ctc[e2].parent_cms_id

EnrichKinds == {TT_TITLE, TT_WIDTH, TT_HEIGHT, TT_MIME}

FullyEnriched(rows, id) == \A k \in EnrichKinds : HasKind(rows, id, k)

EnricherState ==
  [ctt |-> ctt, asset_meta_cache |-> asset_meta_cache, fetch_log |-> fetch_log]

Identifiers == { NAME_ORDER[i] : i \in DOMAIN NAME_ORDER }

\* C9: when rows of all four enrichment kinds exist for an identifier, running
\* the enricher for it appends no row and makes no lookup; an asset the loop
\* has handled has the four kinds, so that a second run adds nothing.
C9_EnricherIdempotent ==
  \A id \in Identifiers :
    /\ FullyEnriched(ctt, id) =>
         \A resp \in Responses :
           enrich_asset_ctt_rows_for(id, EnricherState, resp) = EnricherState
    /\ ( /\ pc \in {"enrich", "done"}
         /\ id \in UrlAssetIds(ctt)
         /\ \A q \in DOMAIN enrich_queue : enrich_queue[q] # id )
       => FullyEnriched(ctt, id)

\* The enricher has run for an asset and looked it up.
C9_Witness ==
  /\ pc = "enrich"
  /\ \E i \in DOMAIN fetch_log : FullyEnriched(ctt, fetch_log[i])

\* The rows a lookup without usable metadata leaves for an asset.
Placeholders(rows, id) ==
  (IF HasKind(rows, id, TT_TITLE) THEN <<>>
   ELSE <<TextRow(id, TT_TITLE, 0, StrVal(id))>>)
  \o (IF HasKind(rows, id, TT_WIDTH) THEN <<>>
      ELSE <<TextRow(id, TT_WIDTH, 0, IntVal(0))>>)
  \o (IF HasKind(rows, id, TT_HEIGHT) THEN <<>>
      ELSE <<TextRow(id, TT_HEIGHT, 0, IntVal(0))>>)
  \o (IF HasKind(rows, id, TT_MIME) THEN <<>>
      ELSE <<TextRow(id, TT_MIME, 0, StrVal("image/jpeg"))>>)

\* A step of the enrichment loop whose lookup failed or gave a body without
\* the metadata fields.
FailedLookup ==
  /\ pc = "enrich"
  /\ enrich_queue # <<>>
  /\ Len(fetch_log') = Len(fetch_log) + 1
  /\ \/ asset_meta_cache'[Head(enrich_queue)].none
     \/ asset_meta_cache'[Head(enrich_queue)] =
          [none |-> FALSE, title |-> Head(enrich_queue), width |-> 0,
           height |-> 0, mime |-> "image/jpeg"]

AllAssetsEnriched ==
  Returned => \A id \in UrlAssetIds(ctt) : FullyEnriched(result, id)

\* C10: a failed lookup does not stop the run: the asset gets the placeholder
\* row of every enrichment kind it lacks and the loop goes on to the next
\* asset, and in what transform returns every asset with a URL row has the
\* four kinds.
C10_FailedFetchDegrades ==
  [][ /\ FailedLookup =>
           /\ ctt' = ctt \o Placeholders(ctt, Head(enrich_queue))
           /\ pc' = "enrich"
           /\ enrich_queue' = Tail(enrich_queue)
      /\ AllAssetsEnriched' ]_vars

\* One lookup failed, another asset of the same run got its metadata.
C10_Witness ==
  /\ Returned
  /\ \E x, y \in DOMAIN asset_meta_cache :
       /\ asset_meta_cache[x].none
       /\ ~asset_meta_cache[y].none
       /\ asset_meta_cache[y].width # 0
       /\ FullyEnriched(result, x)

\* C7: the de-duplication pass applied to its own output returns that output
\* unchanged, same rows in the same order.
C7_DedupIdempotent ==
  [][(pc = "dedup_second" /\ pc' = "dedup_done") => result' = result]_vars

\* The first pass dropped rows and kept at least two.
C7_Witness ==
  /\ pc = "dedup_done"
  /\ Len(result) < Len(ctt)
  /\ Len(result) >= 2
  /\ \E i, j \in DOMAIN ctt : i # j /\ ctt[i] # ctt[j]
                              /\ DedupKey(ctt[i]) = DedupKey(ctt[j])

\* The document has no top-level record array: no 'data' key, or a value of
\* 'data' that is not a list.
NoRecordArray ==
  /\ src # NoSource
  /\ src.t = "dict" => (~src.has_data \/ src.data.t # "list")

\* C11: with no top-level record array main raises before transform is called
\* and before the output file is written.
C11_StructuralErrorFatal ==
  NoRecordArray => /\ pc \in {"main", "raised"}
                   /\ out_file = NoFile

\* With several records of one name the run keeps one type and one record per
\* name, those of the last record (type_cache, units[name] = it).
TypeOfName(n) == infer_type_label(LastOf(n).path)[1]

FirstPos(n) ==
  CHOOSE i \in DOMAIN items :
    items[i].name = n /\ \A j \in 1..(i - 1) : items[j].name # n

\* The path has the segments curriculum, cid and at least one more after them.
UnderCurriculum(path, cid) ==
  \E i \in 1..(Len(path) - 2) : path[i] = "curriculum" /\ path[i + 1] = cid

NoUnitsListCurricula ==
  { n \in ItemNames \ {""} :
      /\ TypeOfName(n) = CONTENT_TYPE_ID["Curriculum"]
      /\ "units" \notin DOMAIN LastOf(n).data.refs }

UnitsUnder(cid) ==
  { n \in ItemNames \ {""} :
      /\ TypeOfName(n) = CONTENT_TYPE_ID["Unit"]
      /\ UnderCurriculum(LastOf(n).path, cid) }

RECURSIVE EdgesFrom(_, _)
EdgesFrom(edges, parent) ==
  IF edges = <<>> THEN <<>>
  ELSE (IF Head(edges).parent_cms_id = parent THEN <<Head(edges)>> ELSE <<>>)
       \o EdgesFrom(Tail(edges), parent)

\* C12: for a curriculum without a units list the Curriculum->Unit phase writes
\* edges to exactly the units whose path lies under the curriculum's identifier
\* segment, one each, with child_index 0, 1, 2, ... in the order the units
\* appear in the input list.
C12_InferredUnitEdges ==
  [][(pc = "curriculum_unit" /\ pc' = "unit_lesson") =>
       \A cid \in NoUnitsListCurricula :
         LET E == EdgesFrom(ctc', cid) IN
           /\ { E[i].child_cms_id : i \in DOMAIN E } = UnitsUnder(cid)
           /\ Len(E) = Cardinality(UnitsUnder(cid))
           /\ \A i \in DOMAIN E : /\ E[i].child_index = i - 1
                                  /\ E[i].child_content_label_id = None
           /\ \A i, j \in DOMAIN E :
                i < j => FirstPos(E[i].child_cms_id) < FirstPos(E[j].child_cms_id)
    ]_vars

\* Three units under the curriculum, in an order that is not the sorted one.
C12_Witness ==
  /\ pc = "unit_lesson"
  /\ \E cid \in NoUnitsListCurricula :
       /\ Len(EdgesFrom(ctc, cid)) = 3
       /\ EdgesFrom(ctc, cid)[1].child_cms_id = "d"
       /\ EdgesFrom(ctc, cid)[3].child_index = 2

\* The records the question phase processes: those whose name is classified as
\* a question page.
QuestionRecords ==
  { k \in DOMAIN items :
      /\ items[k].name # ""
      /\ infer_type_label(LastOf(items[k].name).path)
           = <<CONTENT_TYPE_ID["Page"], LABEL_MAP["questionPage"]>> }

CorrectAnswersOf(k) ==
  IF "correctAnswers" \in DOMAIN items[k].data.refs
  THEN items[k].data.refs["correctAnswers"] ELSE <<>>

\* The identifier a reference resolves to: the last segment of a string's or
\* an object's path, "" for any other shape.
RefId(ref) ==
  IF ref.t \in {"str", "dict"} /\ ref.path # <<>> THEN ref.path[Len(ref.path)]
  ELSE ""

\* The answer's text: answerText of its own record, else the text row
\* extracted earlier for the identifier.
TextOfAnswer(id) ==
  LET own == IF id \in ItemNames /\ "answerText" \in DOMAIN LastOf(id).data.text
                  /\ LastOf(id).data.text["answerText"] # IntVal(0)
             THEN PyStr(LastOf(id).data.text["answerText"]).s ELSE ""
  IN IF own # "" THEN own
     ELSE IF id \in DOMAIN answer_text_index THEN answer_text_index[id] ELSE ""

ResolvedEntries ==
  UNION { { <<k, p>> : p \in { i \in DOMAIN CorrectAnswersOf(k) :
                                  RefId(CorrectAnswersOf(k)[i]) # "" } } :
          k \in QuestionRecords }

ResolvedBefore(list, p) == Cardinality({ i \in 1..(p - 1) : RefId(list[i]) # "" })

QuestionStep == pc = "answers" /\ pc' = "url_assets"

\* The edge with label 502 and the answer-text row on the question are written
\* by the step for the entry, with the given index.
CorrectAnswerWritten(k, p, index) ==
  LET qid == items[k].name
      id == RefId(CorrectAnswersOf(k)[p])
  IN /\ \E e \in (Len(ctc) + 1)..Len(ctc') :
          ctc'[e] = EdgeRow(qid, id, LBL_CORRECT, index)
     /\ TextOfAnswer(id) # "" =>
          \E r \in (Len(ctt) + 1)..Len(ctt') :
            ctt'[r] = TextRow(qid, TT_ANSWER_TEXT, index, StrVal(TextOfAnswer(id)))

\* One edge per resolved entry, one row per resolved entry with a text, every
\* row on a question.
NothingElseWritten ==
  /\ Cardinality({ e \in (Len(ctc) + 1)..Len(ctc') :
                     ctc'[e].child_content_label_id = LBL_CORRECT })
       = Cardinality(ResolvedEntries)
  /\ Len(ctt') - Len(ctt)
       = Cardinality({ x \in ResolvedEntries :
                         TextOfAnswer(RefId(CorrectAnswersOf(x[1])[x[2]])) # "" })
  /\ \A r \in (Len(ctt) + 1)..Len(ctt') :
       /\ ctt'[r].text_type_id = TT_ANSWER_TEXT
       /\ \E k \in QuestionRecords : items[k].name = ctt'[r].content_cms_id

\* C13: every correctAnswers entry that resolves to an answer identifier gets
\* one edge question -> answer with label 502 and, when the answer's text is
\* not empty, one text row of kind 26 on the question with that text; the
\* index of both is the position of the entry in the list.
C13_IndexIsListPosition ==
  [][QuestionStep =>
       /\ \A x \in ResolvedEntries : CorrectAnswerWritten(x[1], x[2], x[2] - 1)
       /\ NothingElseWritten]_vars

\* C13 amended: the index of both is the number of earlier entries of the list
\* that resolve to an identifier.
C13_IndexCountsResolved ==
  [][QuestionStep =>
       /\ \A x \in ResolvedEntries :
            CorrectAnswerWritten(x[1], x[2],
                                 ResolvedBefore(CorrectAnswersOf(x[1]), x[2]))
       /\ NothingElseWritten]_vars

\* A question whose correctAnswers list has a malformed entry before an answer
\* with a text: the row is on the question.
C13_Witness ==
  /\ pc = "url_assets"
  /\ \E x \in ResolvedEntries :
       LET list == CorrectAnswersOf(x[1])
           id == RefId(list[x[2]])
       IN /\ ResolvedBefore(list, x[2]) < x[2] - 1
          /\ TextOfAnswer(id) # ""
          /\ id # items[x[1]].name
          /\ \E r \in DOMAIN ctt :
               ctt[r] = TextRow(items[x[1]].name, TT_ANSWER_TEXT,
                                ResolvedBefore(list, x[2]), StrVal(TextOfAnswer(id)))

\* C14: a content row, once created, keeps its position and its fields in every
\* later step, except that the content_label_id of an Asset row may be raised
\* to an image role of higher priority; the label of a row of any other type
\* never changes.
C14_ContentRowsFrozen ==
  [][\A i \in DOMAIN content :
       /\ i \in DOMAIN content'
       /\ \/ content'[i] = content[i]
          \/ /\ content[i].content_type_id = CONTENT_TYPE_ID["Asset"]
             /\ content'[i] = [content[i] EXCEPT
                                 !.content_label_id = content'[i].content_label_id]
             /\ content'[i].content_label_id \in ImageRoles
             /\ ROLE_PRIORITY(content'[i].content_label_id)
                  > ROLE_PRIORITY(content[i].content_label_id)]_vars

AssetPhaseStep ==
  \/ pc = "entity_assets" /\ pc' = "page_assets"
  \/ pc = "page_assets" /\ pc' = "answers"

\* C15: the child_index of an edge written by the Entity->Asset or the
\* Page->Asset phase is the number of edges the phase wrote before it for the
\* same parent (0 for the parent's first asset edge).
C15_AssetIndexPerParent ==
  [][AssetPhaseStep =>
       \A e \in (Len(ctc) + 1)..Len(ctc') :
         ctc'[e].child_index =
           Cardinality({ f \in (Len(ctc) + 1)..(e - 1) :
                           ctc'[f].parent_cms_id = ctc'[e].parent_cms_id })]_vars

\* The records the relationship loops process: a name, and a type for the name.
IncludedRecords ==
  { k \in DOMAIN items : items[k].name # "" /\ TypeOfName(items[k].name) # None }

ListOf(it, key) ==
  IF key \in DOMAIN it.data.refs THEN it.data.refs[key] ELSE <<>>

\* An entry of a units, lessons or pages list that is kept: an object whose
\* path ends in a known identifier.  Entries of any other shape, with an empty
\* path or with an unknown identifier are dropped.
KeptChild(ref) == ref.t = "dict" /\ RefId(ref) # "" /\ RefId(ref) \in known_ids

\* An entry of an answers list that is kept: a string or an object with a path.
KeptAnswer(ref) == RefId(ref) # ""

\* An entry of a term's references that is kept: it names a known image page.
KeptPage(ref) ==
  /\ RefId(ref) \in ItemNames \ {""}
  /\ TypeOfName(RefId(ref)) = CONTENT_TYPE_ID["Page"]
  /\ infer_type_label(LastOf(RefId(ref)).path)[2] = LABEL_MAP["imagePage"]

NewEdges == (Len(ctc) + 1)..Len(ctc')

\* The kept entries <<k, p>> of the lists named key of the records K.
KeptEntries(K, key, Kept(_)) ==
  UNION { { <<k, p>> : p \in { i \in DOMAIN ListOf(items[k], key) :
                                 Kept(ListOf(items[k], key)[i]) } } : k \in K }

\* Every kept entry has its edge, with the entry's list position as index, and
\* the step writes as many edges as there are kept entries.
PositionalEdges(K, key) ==
  /\ \A x \in KeptEntries(K, key, KeptChild) :
       \E e \in NewEdges :
         /\ ctc'[e].parent_cms_id = items[x[1]].name
         /\ ctc'[e].child_cms_id = RefId(ListOf(items[x[1]], key)[x[2]])
         /\ ctc'[e].child_index = x[2] - 1
  /\ Cardinality(NewEdges) = Cardinality(KeptEntries(K, key, KeptChild))

\* The curricula with a units list, each with the one record kept for its name
\* (the last one).
ListedCurricula ==
  { k \in IncludedRecords :
      /\ TypeOfName(items[k].name) = CONTENT_TYPE_ID["Curriculum"]
      /\ \A j \in DOMAIN items : items[j].name = items[k].name => j <= k
      /\ ListOf(items[k], "units") # <<>> }

UnlistedCurriculumEdges ==
  { e \in NewEdges : ctc'[e].parent_cms_id \in NoUnitsListCurricula }

TermNames ==
  { n \in ItemNames \ {""} : TypeOfName(n) = CONTENT_TYPE_ID["Term"] }

TermEntries ==
  UNION { { <<n, p>> : p \in { i \in DOMAIN TermRefsOf(LastOf(n).data).l :
                                 /\ TermRefsOf(LastOf(n).data).t # "other"
                                 /\ KeptPage(TermRefsOf(LastOf(n).data).l[i]) } } :
          n \in TermNames }

\* C16: in the units, lessons, pages, potentialAnswers, correctAnswers and term
\* reference lists an entry that is neither a string nor an object, or that
\* resolves to an empty identifier or to an unknown one where a known one is
\* required, yields no edge and no content row, and the entries after it are
\* processed: each phase writes the edges of its kept entries and no others,
\* and only the answer phase adds content rows, for kept entries.
C16_BadReferencesDropped ==
  [][/\ (pc = "curriculum_unit" /\ pc' = "unit_lesson") =>
          /\ content' = content
          /\ \A x \in KeptEntries(ListedCurricula, "units", KeptChild) :
               \E e \in NewEdges :
                 /\ ctc'[e].parent_cms_id = items[x[1]].name
                 /\ ctc'[e].child_cms_id = RefId(ListOf(items[x[1]], "units")[x[2]])
                 /\ ctc'[e].child_index = x[2] - 1
          /\ Cardinality(NewEdges \ UnlistedCurriculumEdges)
               = Cardinality(KeptEntries(ListedCurricula, "units", KeptChild))
     /\ (pc = "unit_lesson" /\ pc' = "lesson_page") =>
          content' = content /\ PositionalEdges(IncludedRecords, "lessons")
     /\ (pc = "lesson_page" /\ pc' = "term_refs") =>
          content' = content /\ PositionalEdges(IncludedRecords, "pages")
     /\ (pc = "term_refs" /\ pc' = "entity_assets") =>
          /\ content' = content
          /\ \A x \in TermEntries :
               \E e \in NewEdges :
                 /\ ctc'[e].child_cms_id = x[1]
                 /\ ctc'[e].parent_cms_id
                      = RefId(TermRefsOf(LastOf(x[1]).data).l[x[2]])
          /\ Cardinality(NewEdges) = Cardinality(TermEntries)
     /\ QuestionStep =>
          /\ Cardinality({ e \in NewEdges :
                             ctc'[e].child_content_label_id = LBL_POTENTIAL })
               = Cardinality(KeptEntries(QuestionRecords, "potentialAnswers",
                                         KeptAnswer))
          /\ Cardinality({ e \in NewEdges :
                             ctc'[e].child_content_label_id = LBL_CORRECT })
               = Cardinality(KeptEntries(QuestionRecords, "correctAnswers",
                                         KeptAnswer))
          /\ \A x \in KeptEntries(QuestionRecords, "potentialAnswers", KeptAnswer) :
               \E e \in NewEdges :
                 /\ ctc'[e].parent_cms_id = items[x[1]].name
                 /\ ctc'[e].child_cms_id
                      = RefId(ListOf(items[x[1]], "potentialAnswers")[x[2]])
                 /\ ctc'[e].child_content_label_id = LBL_POTENTIAL
          /\ \A r \in (Len(content) + 1)..Len(content') :
               \E e \in NewEdges : ctc'[e].child_cms_id = content'[r].cms_id
    ]_vars

\* A lessons list with a malformed entry and an unknown identifier before the
\* entry whose edge was written.
C16_Witness ==
  /\ pc = "lesson_page"
  /\ \E k \in IncludedRecords : \E p, q, r \in DOMAIN ListOf(items[k], "lessons") :
       /\ p < r /\ q < r
       /\ ListOf(items[k], "lessons")[p].t = "other"
       /\ RefId(ListOf(items[k], "lessons")[q]) \notin known_ids
       /\ RefId(ListOf(items[k], "lessons")[q]) # ""
       /\ KeptChild(ListOf(items[k], "lessons")[r])
       /\ \E e \in DOMAIN ctc :
            ctc[e] = EdgeRow(items[k].name, RefId(ListOf(items[k], "lessons")[r]),
                             None, r - 1)

PagePositions(path) == { i \in DOMAIN path : path[i] \in DOMAIN LABEL_MAP }

EntityPositions(path) ==
  { i \in DOMAIN path : path[i] \in DOMAIN PATH_TOKEN_TO_TYPE_ID }

Least(S) == CHOOSE i \in S : \A j \in S : i <= j

Greatest(S) == CHOOSE i \in S : \A j \in S : j <= i

\* The records whose path has been classified: type_cache holds, under a
\* record's name, the result for the path of the last record with that name.
Classified ==
  { k \in DOMAIN items : /\ items[k].name \in DOMAIN type_cache
                         /\ items[k] = LastOf(items[k].name) }

\* C17: infer_type_label gives Page and the label of the first page-kind
\* segment when the path has a page-kind segment anywhere, whatever
\* entity-kind segments surround it; the type of the (last) entity-kind
\* segment and no label when it has entity-kind segments only; no type and no
\* label when it has neither, or is empty.
C17_InferTypeLabel ==
  \A k \in Classified :
    LET path == items[k].path
        tl == type_cache[items[k].name]
    IN /\ PagePositions(path) # {} =>
            tl = <<CONTENT_TYPE_ID["Page"],
                   LABEL_MAP[path[Least(PagePositions(path))]]>>
       /\ (PagePositions(path) = {} /\ EntityPositions(path) # {}) =>
            tl = <<PATH_TOKEN_TO_TYPE_ID[path[Greatest(EntityPositions(path))]],
                   None>>
       /\ (PagePositions(path) = {} /\ EntityPositions(path) = {}) =>
            tl = <<None, None>>

\* A classified path with an entity-kind segment on each side of its page-kind
\* segment.
C17_Witness ==
  \E k \in Classified :
    /\ Len(items[k].path) = 3
    /\ EntityPositions(items[k].path) = {1, 3}
    /\ PagePositions(items[k].path) = {2}
    /\ type_cache[items[k].name][1] = CONTENT_TYPE_ID["Page"]

====
